---- MODULE Spec2Model ----
(***************************************************************************)
(* Model of the book catalog of src/main.py: the Library object (its list  *)
(* of Book records), the JSON data file it loads from and rewrites, the   *)
(* operations of Library (construction, load_books, save_books, add_book,  *)
(* remove_book, update_status, find_book_by_id, search_books,              *)
(* display_books) and the menu loop of main().                             *)
(*                                                                         *)
(* Text (title, author) is a sequence of one-character strings, so that    *)
(* exact-case comparison differs from case-insensitive comparison.  The    *)
(* two status literals of the source are Cyrillic; TLA+ strings are ASCII, *)
(* so they are written transliterated.                                     *)
(***************************************************************************)
EXTENDS Integers, Sequences, FiniteSets, TLC

VARIABLES
    books,        \* Library.books: the in-memory sequence of Book records
    file,         \* the data file: [exists, valid, data]
    alive,        \* a Library object exists (its constructor returned)
    save_failed,  \* history: the latest save_books call of this object raised
    faults,       \* history: how many reads and saves have raised so far
    last,         \* the latest call: its arguments, outcome and save attempt
    pc            \* main(): "menu" (in the loop), "exited" or "aborted"

vars == <<books, file, alive, save_failed, faults, last, pc>>

(***************************************************************************)
(* Bounds and input sets                                                   *)
(***************************************************************************)
MaxBooks == 2
\* how long the list may grow where the order of three records is followed
MaxListed == 3
\* how many I/O failures the environment injects in one run
MaxFaults == 1

Titles == { <<"W", "a">>, <<"w", "a">> }
Authors == { <<"T">> }
Years == { 1869, 1866 }
\* the values os.urandom(4).hex() may yield (collisions included)
Ids == { "1a2b3c4d", "2b3c4d5e" }
\* ids a caller may pass: the generated ones and one differing only in case
IdArgs == Ids \cup { "1A2B3C4D" }

Available == "v nalichii"
CheckedOut == "vydana"
StatusArgs == { Available, CheckedOut, "bogus" }

\* how a save_books call can end: written in full, open() raised (the file
\* is untouched), or a write raised after open() truncated the file
SaveOutcomes == { "ok", "open_failed", "write_failed" }

None == 0
NoText == << >>

\* search terms: empty, a title in the other case, an author in lower case,
\* digits of a year, and one that matches nothing
Terms == { << >>, <<"W", "A">>, <<"t">>, <<"6", "9">>, <<"x">> }

\* the vertical tab (one character)
VerticalTab == ""

\* sys.int_info.default_max_str_digits: the longest run of digits int() converts
MaxStrDigits == 4300

\* what the user may type at the prompts of main(): an empty line is drawn at
\* the title prompt; the year texts are plain digits, digits with blanks and
\* an underscore, a negative number between vertical tabs, and three texts
\* int() rejects
Choices == { "1", "2", "3", "4", "5", "6", "7" }
TitleTexts == { << >>, <<"W", "a">> }
AuthorTexts == { <<"T">> }
YearTexts == { <<"1", "8", "6", "9">>, <<" ", "1", "_", "8", "6", "9", " ">>,
               <<VerticalTab, "-", "5", VerticalTab>>, <<"x">>, <<"1", "_">>, << >> }

(***************************************************************************)
(* Text: str.lower, the `in` test of two strings, and str of an int        *)
(***************************************************************************)
UpperCase == <<"A", "B", "C", "D", "E", "F", "G", "H", "I", "J", "K", "L", "M",
               "N", "O", "P", "Q", "R", "S", "T", "U", "V", "W", "X", "Y", "Z">>
LowerCase == <<"a", "b", "c", "d", "e", "f", "g", "h", "i", "j", "k", "l", "m",
               "n", "o", "p", "q", "r", "s", "t", "u", "v", "w", "x", "y", "z">>
Digits == <<"0", "1", "2", "3", "4", "5", "6", "7", "8", "9">>

lower_char(c) ==
    IF \E k \in 1..Len(UpperCase) : UpperCase[k] = c
    THEN LowerCase[CHOOSE k \in 1..Len(UpperCase) : UpperCase[k] = c]
    ELSE c

\* str.lower
lower(s) == [k \in 1..Len(s) |-> lower_char(s[k])]

\* t in s
is_substring(t, s) ==
    \E k \in 0..(Len(s) - Len(t)) : SubSeq(s, k + 1, k + Len(t)) = t

\* str(n) of an int
RECURSIVE str_nat(_)
str_nat(n) ==
    IF n < 10 THEN << Digits[n + 1] >>
    ELSE str_nat(n \div 10) \o << Digits[(n % 10) + 1] >>

str(n) == IF n < 0 THEN <<"-">> \o str_nat(0 - n) ELSE str_nat(n)

\* int(text) of main(), base 10: blanks around the number are stripped, one
\* sign may lead, and single underscores may stand between digits; a text of
\* more than MaxStrDigits digits is rejected.  The blanks are the six ASCII
\* characters int() skips: space, tab, line feed, carriage return, form feed
\* and vertical tab.
Blanks == { " ", "\t", "\n", "\r", "\f", VerticalTab }

is_digit(c) == \E v \in 1..Len(Digits) : Digits[v] = c

\* text.strip()
strip(s) ==
    IF \A k \in 1..Len(s) : s[k] \in Blanks THEN << >>
    ELSE LET first == CHOOSE k \in 1..Len(s) :
                         s[k] \notin Blanks /\ \A j \in 1..(k - 1) : s[j] \in Blanks
             final == CHOOSE k \in 1..Len(s) :
                         s[k] \notin Blanks /\ \A j \in (k + 1)..Len(s) : s[j] \in Blanks
         IN SubSeq(s, first, final)

\* the stripped text without its sign
unsigned(s) ==
    LET t == strip(s) IN
    IF Len(t) > 0 /\ t[1] \in { "+", "-" } THEN SubSeq(t, 2, Len(t)) ELSE t

\* whether u is what int() converts once blanks and sign are gone: digits,
\* single underscores between them, no more than MaxStrDigits digits
is_digit_run(u) ==
    /\ Len(u) > 0
    /\ is_digit(u[1]) /\ is_digit(u[Len(u)])
    /\ \A k \in 1..Len(u) : is_digit(u[k]) \/ u[k] = "_"
    /\ \A k \in 1..(Len(u) - 1) : ~(u[k] = "_" /\ u[k + 1] = "_")
    /\ Cardinality({ k \in 1..Len(u) : is_digit(u[k]) }) <= MaxStrDigits

\* whether int(text) returns; otherwise it raises ValueError
is_int_text(s) == is_digit_run(unsigned(s))

digit_value(c) == (CHOOSE v \in 1..Len(Digits) : Digits[v] = c) - 1

\* the value of a run of digits and underscores
RECURSIVE nat_of(_)
nat_of(u) ==
    IF Len(u) = 0 THEN 0
    ELSE IF u[Len(u)] = "_" THEN nat_of(SubSeq(u, 1, Len(u) - 1))
    ELSE 10 * nat_of(SubSeq(u, 1, Len(u) - 1)) + digit_value(u[Len(u)])

\* the value int(text) returns
int_of(s) ==
    LET t == strip(s) IN
    IF Len(t) > 0 /\ t[1] = "-" THEN 0 - nat_of(unsigned(s)) ELSE nat_of(unsigned(s))

(***************************************************************************)
(* Book                                                                    *)
(***************************************************************************)
\* Book.__init__: rnd is the value of os.urandom(4).hex()
Book(title, author, year, rnd) ==
    [id |-> rnd, title |-> title, author |-> author, year |-> year,
     status |-> Available]

\* variant: the status key is written with the default instead of book.status
to_dict_default_status(book) ==
    [id |-> book.id, title |-> book.title, author |-> book.author,
     year |-> book.year, status |-> Available]

to_dict(book) ==
    [id |-> book.id, title |-> book.title, author |-> book.author,
     year |-> book.year, status |-> book.status]

(***************************************************************************)
(* Persistence                                                             *)
(***************************************************************************)
\* the list comprehension handed to json.dump
dump_books(bs) == [i \in 1..Len(bs) |-> to_dict(bs[i])]

\* variant: the stored id and status are not put back after construction
load_book_regenerated(d, rnd) == Book(d.title, d.author, d.year, rnd)

\* load_books, one element: a Book is constructed (fresh id, default status)
\* and then given the stored id and status
load_book(d, rnd) ==
    [Book(d.title, d.author, d.year, rnd) EXCEPT !.id = d.id, !.status = d.status]

\* load_books over a list whose elements have every key; rnds[i] is the id
\* the constructor draws for element i
load_data(data, rnds) == [i \in 1..Len(data) |-> load_book(data[i], rnds[i])]

\* the keys load_books subscripts in every element of the parsed list
RequiredKeys == { "id", "title", "author", "year", "status" }

has_keys(data) == \A i \in 1..Len(data) : RequiredKeys \subseteq DOMAIN data[i]

\* the keys subscripted while the new list is built, before it is assigned
ConstructorKeys == { "title", "author", "year" }

\* how opening and reading the file can end
ReadOutcomes == { "ok", "failed" }

\* load_books when the second loop raises KeyError: the new list is already
\* assigned; the elements before the raising one have their stored id and
\* status, the raising one its stored id if it has one, the rest are as
\* constructed
load_partial(data, rnds) ==
    LET k == CHOOSE i \in 1..Len(data) :
                 /\ ~({ "id", "status" } \subseteq DOMAIN data[i])
                 /\ \A j \in 1..(i - 1) : { "id", "status" } \subseteq DOMAIN data[j]
    IN [i \in 1..Len(data) |->
           LET b == Book(data[i].title, data[i].author, data[i].year, rnds[i]) IN
           IF i < k THEN load_book(data[i], rnds[i])
           ELSE IF i = k /\ "id" \in DOMAIN data[i] THEN [b EXCEPT !.id = data[i].id]
           ELSE b]

\* variant: a failed load is swallowed and the list left empty
load_books_swallowing(f, bs, rd, rnds) ==
    IF f.exists /\ rd = "ok" /\ f.valid /\ has_keys(f.data)
    THEN [outcome |-> "loaded", books |-> load_data(f.data, rnds)]
    ELSE [outcome |-> "loaded", books |-> << >>]

\* Library.load_books on an object whose list is bs, over the file f: how the
\* call ends and the list it leaves
load_books(f, bs, rd, rnds) ==
    IF ~f.exists THEN [outcome |-> "loaded", books |-> bs]
    ELSE IF rd /= "ok" THEN [outcome |-> "IOError", books |-> bs]
    ELSE IF ~f.valid THEN [outcome |-> "ParseError", books |-> bs]
    ELSE IF \E i \in 1..Len(f.data) : ~(ConstructorKeys \subseteq DOMAIN f.data[i])
    THEN [outcome |-> "KeyError", books |-> bs]
    ELSE IF ~has_keys(f.data)
    THEN [outcome |-> "KeyError", books |-> load_partial(f.data, rnds)]
    ELSE [outcome |-> "loaded", books |-> load_data(f.data, rnds)]

\* the file after save_books(bs) ended as sv
write_file(f, bs, sv) ==
    CASE sv = "ok" -> [exists |-> TRUE, valid |-> TRUE, data |-> dump_books(bs)]
      [] sv = "open_failed" -> f
      [] sv = "write_failed" -> [exists |-> TRUE, valid |-> FALSE, data |-> << >>]

(***************************************************************************)
(* Lookups                                                                 *)
(***************************************************************************)
\* variant: after a scan without a match the loop variable (the last book)
\* is returned instead of None
find_book_by_id_loop_variable(bs, book_id) ==
    IF \E i \in 1..Len(bs) : bs[i].id = book_id
    THEN CHOOSE i \in 1..Len(bs) :
            /\ bs[i].id = book_id
            /\ \A j \in 1..(i - 1) : bs[j].id /= book_id
    ELSE Len(bs)

\* variant: the scan keeps the last match instead of returning the first
find_book_by_id_last_match(bs, book_id) ==
    IF \E i \in 1..Len(bs) : bs[i].id = book_id
    THEN CHOOSE i \in 1..Len(bs) :
            /\ bs[i].id = book_id
            /\ \A j \in (i + 1)..Len(bs) : bs[j].id /= book_id
    ELSE None

\* index of the first book with this id, None when there is none
find_book_by_id(bs, book_id) ==
    IF \E i \in 1..Len(bs) : bs[i].id = book_id
    THEN CHOOSE i \in 1..Len(bs) :
            /\ bs[i].id = book_id
            /\ \A j \in 1..(i - 1) : bs[j].id /= book_id
    ELSE None

\* variant: the scan starts at the second book
book_exists_skip_first(bs, title, author, year) ==
    \E i \in 2..Len(bs) :
        bs[i].title = title /\ bs[i].author = author /\ bs[i].year = year

\* the duplicate scan at the head of add_book
book_exists(bs, title, author, year) ==
    \E i \in 1..Len(bs) :
        bs[i].title = title /\ bs[i].author = author /\ bs[i].year = year

\* list.remove of the object found at index i
\* variant: the last record is moved into the place of the removed one
remove_at_swap(bs, i) ==
    [k \in 1..(Len(bs) - 1) |-> IF k = i THEN bs[Len(bs)] ELSE bs[k]]

remove_at(bs, i) == [k \in 1..(Len(bs) - 1) |-> IF k < i THEN bs[k] ELSE bs[k + 1]]

\* variant: any non-empty string passes
valid_status_nonempty(s) == s /= ""

valid_status(s) == s \in { Available, CheckedOut }

\* variant: every book with the id of the found one gets the status
set_status_same_id(bs, i, new_status) ==
    [k \in 1..Len(bs) |->
        IF bs[k].id = bs[i].id THEN [bs[k] EXCEPT !.status = new_status] ELSE bs[k]]

\* book.status = new_status on the book found at index i
set_status(bs, i, new_status) == [bs EXCEPT ![i].status = new_status]

\* a save_books call may raise while the run's failure budget lasts
can_end(sv) == sv = "ok" \/ faults < MaxFaults

Call(op, outcome, saved, id, title, author, year, status) ==
    [op |-> op, outcome |-> outcome, saved |-> saved, id |-> id,
     title |-> title, author |-> author, year |-> year, status |-> status]

(***************************************************************************)
(* Initial state: a Library constructed over an absent data file           *)
(***************************************************************************)
Init ==
    /\ books = << >>
    /\ file = [exists |-> FALSE, valid |-> FALSE, data |-> << >>]
    /\ alive = TRUE
    /\ save_failed = FALSE
    /\ faults = 0
    /\ last = Call("init", "loaded", "none", "", NoText, NoText, 0, "")
    /\ pc = "menu"

(***************************************************************************)
(* Library.__init__ / load_books: a new object over the same path          *)
(***************************************************************************)
\* a read may raise while the run's failure budget lasts; an absent file is
\* not opened
can_read(rd) == rd = "ok" \/ (file.exists /\ faults < MaxFaults)

\* how many Book objects load_books constructs, each drawing an id: the list
\* comprehension stops at the first element lacking title, author or year
constructed(rd) ==
    IF ~(file.exists /\ rd = "ok" /\ file.valid) THEN 0
    ELSE IF \A i \in 1..Len(file.data) : ConstructorKeys \subseteq DOMAIN file.data[i]
    THEN Len(file.data)
    ELSE (CHOOSE i \in 1..Len(file.data) :
             /\ ~(ConstructorKeys \subseteq DOMAIN file.data[i])
             /\ \A j \in 1..(i - 1) : ConstructorKeys \subseteq DOMAIN file.data[j]) - 1

\* the ids the constructed Books draw.  When every element has every key,
\* each drawn id is replaced by the stored one, whatever was drawn: one draw
\* then stands for all.  Otherwise every draw is offered.
draws(rd) ==
    IF has_keys(file.data)
    THEN { [i \in 1..constructed(rd) |-> CHOOSE rnd \in Ids : TRUE] }
    ELSE [1..constructed(rd) -> Ids]

\* the constructor has ended as r: when it raised, a caller that holds an
\* earlier object (held) goes on with it; without one there is no object
Library_init_end(held, r) ==
    /\ faults' = IF r.outcome = "IOError" THEN faults + 1 ELSE faults
    /\ last' = Call("init", r.outcome, "none", "", NoText, NoText, 0, "")
    /\ IF r.outcome = "loaded"
       THEN books' = r.books /\ alive' = TRUE /\ save_failed' = FALSE
       ELSE IF held
       THEN UNCHANGED <<books, alive, save_failed>>
       ELSE books' = << >> /\ alive' = FALSE /\ save_failed' = FALSE

\* Library(path): an empty list, then load_books
Library_init(held) ==
    /\ file' = file
    /\ \E rd \in ReadOutcomes :
          /\ can_read(rd)
          /\ \E rnds \in draws(rd) :
                Library_init_end(held, load_books(file, << >>, rd, rnds))

\* the direct call has ended as r
load_books_end(r) ==
    /\ faults' = IF r.outcome = "IOError" THEN faults + 1 ELSE faults
    /\ books' = r.books
    /\ last' = Call("load", r.outcome, "none", "", NoText, NoText, 0, "")

\* Library.load_books called on the object in use
load_books_call ==
    /\ alive
    /\ UNCHANGED <<file, alive, save_failed>>
    /\ \E rd \in ReadOutcomes :
          /\ can_read(rd)
          /\ \E rnds \in draws(rd) :
                load_books_end(load_books(file, books, rd, rnds))

(***************************************************************************)
(* Library.save_books as called by a mutating operation: the file is       *)
(* rewritten from bs, or the call raises (sv names how it ended)           *)
(***************************************************************************)
save_books(bs, sv) ==
    /\ can_end(sv)
    /\ file' = write_file(file, bs, sv)
    /\ save_failed' = (sv /= "ok")
    /\ faults' = IF sv = "ok" THEN faults ELSE faults + 1

\* variant: an exception of save_books is swallowed and the message printed
outcome_of_swallowed(sv, printed) == printed

\* what the caller sees of a call that saved: its message, or the exception
outcome_of(sv, printed) == IF sv = "ok" THEN printed ELSE "IOError"

\* Library.save_books called by a caller of its own: the current list is
\* written, nothing is printed
save_books_call ==
    /\ alive
    /\ UNCHANGED <<books, alive>>
    /\ \E sv \in SaveOutcomes :
          /\ save_books(books, sv)
          /\ last' = Call("save", outcome_of(sv, "returned"), sv,
                          "", NoText, NoText, 0, "")

(***************************************************************************)
(* Library.add_book                                                        *)
(***************************************************************************)
add_book(title, author, year) ==
    /\ alive
    /\ alive' = alive
    /\ IF book_exists(books, title, author, year)
       THEN /\ UNCHANGED <<books, file, save_failed, faults>>
            /\ last' = Call("add", "duplicate", "none", "", title, author, year, "")
       ELSE \E rnd \in Ids, sv \in SaveOutcomes :
               /\ books' = Append(books, Book(title, author, year, rnd))
               /\ save_books(books', sv)
               /\ last' = Call("add", outcome_of(sv, "added"), sv,
                               rnd, title, author, year, "")

(***************************************************************************)
(* Library.remove_book                                                     *)
(***************************************************************************)
remove_book(book_id) ==
    /\ alive
    /\ alive' = alive
    /\ LET i == find_book_by_id(books, book_id) IN
       IF i /= None
       THEN \E sv \in SaveOutcomes :
               /\ books' = remove_at(books, i)
               /\ save_books(books', sv)
               /\ last' = Call("remove", outcome_of(sv, "removed"), sv,
                               book_id, NoText, NoText, 0, "")
       ELSE /\ UNCHANGED <<books, file, save_failed, faults>>
            /\ last' = Call("remove", "NotFound", "none", book_id, NoText, NoText, 0, "")

(***************************************************************************)
(* Library.update_status                                                   *)
(***************************************************************************)
\* variant: the status is validated before the book is looked up
update_status_status_first(book_id, new_status) ==
    /\ alive
    /\ alive' = alive
    /\ LET i == find_book_by_id(books, book_id) IN
       IF valid_status(new_status)
       THEN IF i /= None
            THEN \E sv \in SaveOutcomes :
                    /\ books' = set_status(books, i, new_status)
                    /\ save_books(books', sv)
                    /\ last' = Call("update", outcome_of(sv, "updated"), sv,
                                    book_id, NoText, NoText, 0, new_status)
            ELSE /\ UNCHANGED <<books, file, save_failed, faults>>
                 /\ last' = Call("update", "NotFound", "none", book_id,
                                 NoText, NoText, 0, new_status)
       ELSE /\ UNCHANGED <<books, file, save_failed, faults>>
            /\ last' = Call("update", "InvalidStatus", "none", book_id,
                            NoText, NoText, 0, new_status)

update_status(book_id, new_status) ==
    /\ alive
    /\ alive' = alive
    /\ LET i == find_book_by_id(books, book_id) IN
       IF i /= None
       THEN IF valid_status(new_status)
            THEN \E sv \in SaveOutcomes :
                    /\ books' = set_status(books, i, new_status)
                    /\ save_books(books', sv)
                    /\ last' = Call("update", outcome_of(sv, "updated"), sv,
                                    book_id, NoText, NoText, 0, new_status)
            ELSE /\ UNCHANGED <<books, file, save_failed, faults>>
                 /\ last' = Call("update", "InvalidStatus", "none", book_id,
                                 NoText, NoText, 0, new_status)
       ELSE /\ UNCHANGED <<books, file, save_failed, faults>>
            /\ last' = Call("update", "NotFound", "none", book_id,
                            NoText, NoText, 0, new_status)

(***************************************************************************)
(* The read-only operations: what they return or print is kept in last     *)
(***************************************************************************)
Query(op, outcome, id, term, shown) ==
    [op |-> op, outcome |-> outcome, saved |-> "none", id |-> id,
     term |-> term, shown |-> shown]

\* Library.find_book_by_id as called by a caller of its own
find_book(book_id) ==
    /\ alive
    /\ UNCHANGED <<books, file, alive, save_failed, faults>>
    /\ LET i == find_book_by_id(books, book_id) IN
       last' = IF i /= None
               THEN Query("find", "found", book_id, NoText, << books[i] >>)
               ELSE Query("find", "None", book_id, NoText, << >>)

\* variant: the term is not lower-cased before the title and author tests
search_match_exact_case(book, search_term) ==
    \/ is_substring(search_term, lower(book.title))
    \/ is_substring(search_term, lower(book.author))
    \/ is_substring(search_term, str(book.year))

\* the condition of the list comprehension of search_books
search_match(book, search_term) ==
    \/ is_substring(lower(search_term), lower(book.title))
    \/ is_substring(lower(search_term), lower(book.author))
    \/ is_substring(search_term, str(book.year))

\* Library.search_books: the books displayed, or the nothing-found message
search_books(search_term) ==
    /\ alive
    /\ UNCHANGED <<books, file, alive, save_failed, faults>>
    /\ LET Test(book) == search_match(book, search_term)
           found_books == SelectSeq(books, Test)
       IN last' = Query("search", IF found_books /= << >> THEN "found" ELSE "nothing",
                        "", search_term, found_books)

\* variant: the listing also rewrites the file
display_books_saving ==
    /\ alive
    /\ UNCHANGED <<books, alive, save_failed, faults>>
    /\ file' = write_file(file, books, "ok")
    /\ last' = Query("list", IF books /= << >> THEN "shown" ELSE "empty",
                     "", NoText, books)

\* variant: the books are displayed newest first
display_books_reversed ==
    /\ alive
    /\ UNCHANGED <<books, file, alive, save_failed, faults>>
    /\ last' = Query("list", IF books /= << >> THEN "shown" ELSE "empty", "", NoText,
                     [k \in 1..Len(books) |-> books[Len(books) + 1 - k]])

\* Library.display_books: every book displayed, or the library-is-empty message
display_books ==
    /\ alive
    /\ UNCHANGED <<books, file, alive, save_failed, faults>>
    /\ last' = Query("list", IF books /= << >> THEN "shown" ELSE "empty",
                     "", NoText, books)

(***************************************************************************)
(* main(): one pass of the menu loop per step                              *)
(***************************************************************************)
Menu(outcome, choice) ==
    [op |-> "menu", outcome |-> outcome, saved |-> "none", choice |-> choice]

\* no handler in main(): an exception of the Library call ends the process,
\* otherwise the loop shows the menu again
after_call == pc' = IF last'.outcome = "IOError" THEN "aborted" ELSE "menu"

\* choice "1": int() of the year text raises ValueError before add_book
main_add(title, author, year_text) ==
    IF is_int_text(year_text)
    THEN add_book(title, author, int_of(year_text)) /\ after_call
    ELSE /\ pc' = "aborted"
         /\ last' = Menu("ValueError", "1")
         /\ UNCHANGED <<books, file, alive, save_failed, faults>>

\* choice "6": break
main_exit ==
    /\ pc' = "exited"
    /\ last' = Menu("exit", "6")
    /\ UNCHANGED <<books, file, alive, save_failed, faults>>

\* variant: an unknown choice leaves the loop
main_invalid_break(choice) ==
    /\ pc' = "exited"
    /\ last' = Menu("InvalidChoice", choice)
    /\ UNCHANGED <<books, file, alive, save_failed, faults>>

\* any other choice: the error line, then the menu again
main_invalid(choice) ==
    /\ pc' = "menu"
    /\ last' = Menu("InvalidChoice", choice)
    /\ UNCHANGED <<books, file, alive, save_failed, faults>>

main(choice) ==
    /\ pc = "menu"
    /\ IF choice = "1"
       THEN \E title \in TitleTexts, author \in AuthorTexts, year_text \in YearTexts :
               main_add(title, author, year_text)
       ELSE IF choice = "2"
       THEN \E book_id \in IdArgs : remove_book(book_id) /\ after_call
       ELSE IF choice = "3"
       THEN \E search_term \in Terms : search_books(search_term) /\ after_call
       ELSE IF choice = "4"
       THEN display_books /\ after_call
       ELSE IF choice = "5"
       THEN \E book_id \in IdArgs, new_status \in StatusArgs :
               update_status(book_id, new_status) /\ after_call
       ELSE IF choice = "6"
       THEN main_exit
       ELSE main_invalid(choice)

\* the program is run (again): Library("library.json"), then the loop
main_start ==
    /\ pc /= "menu"
    /\ Library_init(FALSE)
    /\ pc' = IF alive' THEN "menu" ELSE "aborted"

(***************************************************************************)
(* Specification: the Library object driven by any caller                  *)
(***************************************************************************)
\* the list is followed up to n records
bounded(n) == Len(books') <= n

Next ==
    \/ Library_init(TRUE) /\ UNCHANGED pc
    \/ load_books_call /\ UNCHANGED pc
    \/ \E t \in Titles, a \in Authors, y \in Years :
          add_book(t, a, y) /\ bounded(MaxBooks) /\ UNCHANGED pc
    \/ \E id \in IdArgs : remove_book(id) /\ UNCHANGED pc
    \/ \E id \in IdArgs, s \in StatusArgs : update_status(id, s) /\ UNCHANGED pc
    \/ save_books_call /\ UNCHANGED pc

Spec == Init /\ [][Next]_vars

(***************************************************************************)
(* Specification: the same with the read-only operations, in runs where    *)
(* no read or save raises                                                  *)
(***************************************************************************)
NextQueries ==
    \/ Library_init(TRUE) /\ faults' = faults /\ UNCHANGED pc
    \/ load_books_call /\ faults' = faults /\ UNCHANGED pc
    \/ \E t \in Titles, a \in Authors, y \in Years :
          add_book(t, a, y) /\ bounded(MaxBooks) /\ faults' = faults /\ UNCHANGED pc
    \/ \E id \in IdArgs : remove_book(id) /\ faults' = faults /\ UNCHANGED pc
    \/ \E id \in IdArgs, s \in StatusArgs :
          update_status(id, s) /\ faults' = faults /\ UNCHANGED pc
    \/ \E id \in IdArgs : find_book(id) /\ UNCHANGED pc
    \/ \E term \in Terms : search_books(term) /\ UNCHANGED pc
    \/ display_books /\ UNCHANGED pc
    \/ save_books_call /\ faults' = faults /\ UNCHANGED pc

SpecQueries == Init /\ [][NextQueries]_vars

(***************************************************************************)
(* Specification: the program, run after run                               *)
(***************************************************************************)
NextMain ==
    \/ main_start
    \/ \E choice \in Choices : main(choice) /\ bounded(MaxBooks)

SpecMain == Init /\ [][NextMain]_vars

(***************************************************************************)
(* Specification: add, remove, update and list alone, no read or save      *)
(* raising, with a list of up to MaxListed records                         *)
(***************************************************************************)
NextOrder ==
    \/ \E t \in Titles, a \in Authors, y \in Years :
          add_book(t, a, y) /\ bounded(MaxListed) /\ faults' = faults /\ UNCHANGED pc
    \/ \E id \in IdArgs : remove_book(id) /\ faults' = faults /\ UNCHANGED pc
    \/ \E id \in IdArgs, st \in StatusArgs :
          update_status(id, st) /\ faults' = faults /\ UNCHANGED pc
    \/ display_books /\ UNCHANGED pc

SpecOrder == Init /\ [][NextOrder]_vars

(***************************************************************************)
(* Specification: a caller of Library over a data file found on disk:      *)
(* absent, not JSON, or a list whose elements may lack one key.  The       *)
(* caller constructs objects, calls load_books on the one it holds, and    *)
(* adds books.                                                             *)
(***************************************************************************)
FoundElement ==
    [id |-> "1a2b3c4d", title |-> <<"W", "a">>, author |-> <<"T">>,
     year |-> 1869, status |-> CheckedOut]

FoundElements ==
    { [k \in K |-> FoundElement[k]] :
         K \in { RequiredKeys \ M : M \in { {} } \cup { {k} : k \in RequiredKeys } } }

FoundFiles ==
    { [exists |-> FALSE, valid |-> FALSE, data |-> << >>],
      [exists |-> TRUE, valid |-> FALSE, data |-> << >>] }
    \cup { [exists |-> TRUE, valid |-> TRUE, data |-> d] :
             d \in UNION { [1..n -> FoundElements] : n \in 1..MaxBooks } }

\* the caller holds no object yet, or one constructed before the file was
\* put there (as src/test.py test_load_books does)
InitFound ==
    /\ file \in FoundFiles
    /\ books = << >>
    /\ alive \in BOOLEAN
    /\ save_failed = FALSE
    /\ faults = 0
    /\ last = Call("none", "none", "none", "", NoText, NoText, 0, "")
    /\ pc = "exited"

NextLoad ==
    \/ Library_init(alive) /\ UNCHANGED pc
    \/ load_books_call /\ UNCHANGED pc
    \/ \E t \in Titles, a \in Authors, y \in Years :
          add_book(t, a, y) /\ bounded(MaxBooks) /\ UNCHANGED pc

SpecLoad == InitFound /\ [][NextLoad]_vars

(***************************************************************************)
(* Properties                                                              *)
(***************************************************************************)
\* what the claims read off a state, stated without the operations' helpers
SameKey(b, title, author, year) ==
    b.title = title /\ b.author = author /\ b.year = year

HasId(bs, id) == \E i \in 1..Len(bs) : bs[i].id = id

\* the file, read as a sequence, equals the in-memory sequence field by field
InSync ==
    /\ file.exists => file.valid
    /\ LET d == IF file.exists THEN file.data ELSE << >> IN
       /\ Len(d) = Len(books)
       /\ \A i \in 1..Len(books) :
            /\ d[i].id = books[i].id
            /\ d[i].title = books[i].title
            /\ d[i].author = books[i].author
            /\ d[i].year = books[i].year
            /\ d[i].status = books[i].status

\* C1: no two records of the in-memory sequence share (title, author, year),
\* titles and authors compared exact-case, in every state reached by add,
\* remove, updateStatus and re-construction from the saved file.
C1_Uniqueness ==
    \A i, j \in 1..Len(books) :
        SameKey(books[i], books[j].title, books[j].author, books[j].year) => i = j

\* two records differing only in the case of the title, and a rejected add
C1_Witness ==
    /\ Len(books) = 2
    /\ books[1].title = <<"W", "a">> /\ books[2].title = <<"w", "a">>
    /\ books[1].author = books[2].author /\ books[1].year = books[2].year
    /\ last.op = "add" /\ last.outcome = "duplicate"

\* C2 as stated: after construction or any call in which save did not fail,
\* the file read as a sequence equals the in-memory sequence.
C2_Original ==
    (alive /\ last.saved \in { "none", "ok" }) => InSync

\* C2 amended: after construction, or after any call such that the latest
\* save attempt of this catalog (if any) did not fail, the file read as a
\* sequence equals the in-memory sequence in length, order and every field.
C2_WriteThrough ==
    (alive /\ ~save_failed) => InSync

\* a successful save of two records after an earlier save had failed
C2_Witness ==
    /\ alive /\ ~save_failed /\ faults > 0
    /\ last.saved = "ok" /\ Len(books) = 2
    /\ \E i \in 1..2 : books[i].status = CheckedOut

\* C3: save followed by load on the same path yields the saved sequence
\* (id, title, author, year, status, order), whatever id the constructor
\* draws for a loaded record.
C3_RoundTrip ==
    \A rnds \in [1..Len(books) -> Ids] :
        LET f == write_file(file, books, "ok") IN
        f.exists /\ f.valid /\ load_data(f.data, rnds) = books

\* a catalog loaded from its file with a checked-out record and two ids
C3_Witness ==
    /\ last.op = "init" /\ last.outcome = "loaded" /\ Len(books) = 2
    /\ books[1].status = CheckedOut /\ books[2].status = Available
    /\ books[1].id /= books[2].id

\* C4: after a successful add, findById(id of the created record) yields a
\* record with the added title, author and year and status Available,
\* whatever id the random source yielded.
C4_AddThenFind ==
    (last.op = "add" /\ last.outcome = "added") =>
        LET i == find_book_by_id(books, last.id) IN
        /\ i /= None
        /\ SameKey(books[i], last.title, last.author, last.year)
        /\ books[i].status = Available

\* C5: remove(r.id) for a record r of the sequence makes findById(r.id)
\* return absence and shortens the sequence by exactly one.
C5_RemoveThenFind ==
    [][(last'.op = "remove" /\ last'.outcome = "removed") =>
          /\ find_book_by_id(books', last'.id) = None
          /\ Len(books') = Len(books) - 1]_vars

\* C6: add with the (title, author, year) of a record already present is
\* rejected as a duplicate and changes nothing: memory and file are the same,
\* no save is attempted, and so repeating it gives the same state again.
C6_DuplicateAdd ==
    [][(/\ last'.op = "add"
        /\ \E i \in 1..Len(books) :
              SameKey(books[i], last'.title, last'.author, last'.year)) =>
          /\ last'.outcome = "duplicate"
          /\ last'.saved = "none"
          /\ UNCHANGED <<books, file, alive, save_failed, faults>>
          /\ (last.op = "add" /\ last.outcome = "duplicate"
              /\ SameKey(last, last'.title, last'.author, last'.year)
                 => last' = last)]_vars

C6_Witness ==
    /\ last.op = "add" /\ last.outcome = "duplicate"
    /\ Len(books) = 2 /\ file.exists
    /\ SameKey(books[2], last.title, last.author, last.year)

\* C7: remove with an id no record has signals NotFound, leaves the sequence
\* as it was and attempts no save: the file is neither created nor rewritten.
C7_RemoveNotFound ==
    [][(last'.op = "remove" /\ ~HasId(books, last'.id)) =>
          /\ last'.outcome = "NotFound"
          /\ last'.saved = "none"
          /\ books' = books
          /\ file' = file]_vars

\* NotFound for an id that differs from a stored one only in case, the file
\* still absent
C7_Witness ==
    /\ last.op = "remove" /\ last.outcome = "NotFound"
    /\ last.id = "1A2B3C4D"
    /\ Len(books) > 0 /\ books[1].id = "1a2b3c4d"
    /\ ~file.exists

\* C8: updateStatus looks the id up first: an unknown id gives NotFound for
\* every newStatus, InvalidStatus is signalled only for a known id with a
\* status outside the two values, and only a known id with a valid status
\* mutates and saves.
C8_UpdateOrder ==
    [][last'.op = "update" =>
          LET found == HasId(books, last'.id)
              valid == last'.status \in { Available, CheckedOut }
          IN /\ ~found => last'.outcome = "NotFound"
             /\ last'.outcome = "InvalidStatus" <=> (found /\ ~valid)
             /\ (books' /= books \/ file' /= file \/ last'.saved /= "none")
                   => (found /\ valid)
             /\ (found /\ valid) => last'.saved /= "none"]_vars

\* an unknown id with an invalid status: NotFound
C8_Witness ==
    /\ last.op = "update" /\ last.outcome = "NotFound"
    /\ last.status = "bogus" /\ Len(books) > 0

\* C9: updateStatus of an existing record with a status that is not one of
\* the two values signals InvalidStatus and changes nothing in memory or in
\* the file.
C9_InvalidStatus ==
    [][(/\ last'.op = "update"
        /\ HasId(books, last'.id)
        /\ last'.status \notin { Available, CheckedOut }) =>
          /\ last'.outcome = "InvalidStatus"
          /\ last'.saved = "none"
          /\ books' = books
          /\ file' = file]_vars

C9_Witness ==
    /\ last.op = "update" /\ last.outcome = "InvalidStatus"
    /\ last.status = "bogus" /\ HasId(books, last.id)
    /\ Len(books) = 2

\* C10: a successful updateStatus sets the status of the matched (first)
\* record to newStatus and changes nothing else: its other fields, every
\* other record, and the length and order of the sequence.
C10_UpdateFrame ==
    [][(last'.op = "update" /\ last'.outcome = "updated") =>
          \E i \in 1..Len(books) :
              /\ books[i].id = last'.id
              /\ \A j \in 1..(i - 1) : books[j].id /= last'.id
              /\ Len(books') = Len(books)
              /\ books'[i].status = last'.status
              /\ books'[i].id = books[i].id
              /\ SameKey(books'[i], books[i].title, books[i].author, books[i].year)
              /\ \A k \in 1..Len(books) : k /= i => books'[k] = books[k]]_vars

\* the first of two records was checked out, the second is still available
C10_Witness ==
    /\ last.op = "update" /\ last.outcome = "updated" /\ last.status = CheckedOut
    /\ Len(books) = 2
    /\ books[1].id = last.id /\ books[1].status = CheckedOut
    /\ books[2].status = Available

\* the first index of bs holding id (0 when none), spelled for the claims
FirstWithId(bs, id, i) ==
    /\ i \in 1..Len(bs)
    /\ bs[i].id = id
    /\ \A j \in 1..(i - 1) : bs[j].id /= id

\* as is bs with its element i taken out, the others in their order
Without(as, bs, i) ==
    /\ Len(as) = Len(bs) - 1
    /\ \A k \in 1..(i - 1) : as[k] = bs[k]
    /\ \A k \in i..(Len(bs) - 1) : as[k] = bs[k + 1]

\* C12: every record's status is one of the two literal values, in every
\* state reached by add, remove, updateStatus with arbitrary status strings
\* and reload; a record just added has status Available.
C12_StatusEnum ==
    /\ \A i \in 1..Len(books) : books[i].status \in { Available, CheckedOut }
    /\ (last.op = "add" /\ last.saved /= "none")
          => books[Len(books)].status = Available

\* a rejected "bogus" for a record that is checked out
C12_Witness ==
    /\ last.op = "update" /\ last.status = "bogus"
    /\ \E i \in 1..Len(books) :
          books[i].id = last.id /\ books[i].status = CheckedOut

\* the search condition as the claim words it
Matches(b, term) ==
    \/ is_substring(lower(term), lower(b.title))
    \/ is_substring(lower(term), lower(b.author))
    \/ is_substring(term, str(b.year))

\* C13: search(term) shows, in insertion order and each at most once,
\* exactly the records whose lower-cased title or author contains the
\* lower-cased term or whose year in decimal contains the literal term; with
\* no match the result is empty and nothing-found is reported.
C13_Search ==
    last.op = "search" =>
        /\ \E f \in [1..Len(last.shown) -> 1..Len(books)] :
              /\ \A k, m \in 1..Len(last.shown) : k < m => f[k] < f[m]
              /\ \A k \in 1..Len(last.shown) : last.shown[k] = books[f[k]]
              /\ \A i \in 1..Len(books) :
                    Matches(books[i], last.term)
                       <=> \E k \in 1..Len(last.shown) : f[k] = i
        /\ (last.outcome = "nothing") <=> (last.shown = << >>)
        /\ last.outcome \in { "found", "nothing" }

\* an upper-case term finds both titles; the second record only by its title
C13_Witness ==
    /\ last.op = "search" /\ last.term = <<"W", "A">>
    /\ Len(books) = 2 /\ last.shown = books
    /\ books[1].title = <<"w", "a">> /\ books[2].title = <<"W", "a">>

\* C16: a successful add puts the new record at the end and leaves the
\* earlier ones in place, a successful remove takes one record out and keeps
\* the order of the others, updateStatus never reorders, and list shows the
\* sequence in that order.
C16_InsertionOrder ==
    [][/\ (last'.op = "add" /\ last'.outcome = "added") =>
             /\ Len(books') = Len(books) + 1
             /\ \A k \in 1..Len(books) : books'[k] = books[k]
             /\ SameKey(books'[Len(books')], last'.title, last'.author, last'.year)
       /\ (last'.op = "remove" /\ last'.outcome = "removed") =>
             \E i \in 1..Len(books) : Without(books', books, i)
       /\ last'.op = "update" =>
             /\ Len(books') = Len(books)
             /\ \A k \in 1..Len(books) :
                   /\ books'[k].id = books[k].id
                   /\ SameKey(books'[k], books[k].title, books[k].author, books[k].year)
       /\ last'.op = "list" =>
             /\ last'.shown = books
             /\ (last'.outcome = "empty") <=> (books = << >>)]_vars

\* one of three records has just been removed: two differing records
\* survive, and neither has the id the call was given
C16_Witness ==
    /\ last.op = "remove" /\ last.outcome = "removed"
    /\ Len(books) = 2
    /\ books[1].title /= books[2].title
    /\ books[1].id /= last.id /\ books[2].id /= last.id

\* C17: findById, remove and updateStatus act on the first record whose id
\* equals the given id exactly; with several records of that id, remove
\* deletes only the first and updateStatus changes only the first.
C17_FirstMatch ==
    [][/\ last'.op = "find" =>
             IF HasId(books, last'.id)
             THEN \E i \in 1..Len(books) :
                     FirstWithId(books, last'.id, i) /\ last'.shown = << books[i] >>
             ELSE last'.outcome = "None" /\ last'.shown = << >>
       /\ (last'.op = "remove" /\ last'.outcome = "removed") =>
             \E i \in 1..Len(books) :
                 FirstWithId(books, last'.id, i) /\ Without(books', books, i)
       /\ (last'.op = "update" /\ last'.outcome = "updated") =>
             \E i \in 1..Len(books) :
                 /\ FirstWithId(books, last'.id, i)
                 /\ books'[i].status = last'.status
                 /\ \A k \in 1..Len(books) : k /= i => books'[k] = books[k]]_vars

\* two records share an id; the lookup returned the first
C17_Witness ==
    /\ last.op = "find" /\ last.outcome = "found"
    /\ Len(books) = 2 /\ books[1].id = books[2].id /\ books[1].id = last.id
    /\ last.shown = << books[1] >>

\* C18: findById, search and list change neither the in-memory sequence nor
\* the file and attempt no save.
C18_ReadOnly ==
    [][last'.op \in { "find", "search", "list" } =>
          /\ UNCHANGED <<books, file, alive, save_failed, faults, pc>>
          /\ last'.saved = "none"]_vars

\* a listing of the empty catalog: the file is still absent
C18_Witness ==
    /\ last.op = "list" /\ last.outcome = "empty"
    /\ ~file.exists /\ books = << >>

\* C20: when save fails in add, remove or updateStatus the caller gets the
\* I/O error (not a duplicate, not-found or invalid-status signal) and the
\* in-memory sequence keeps the change: the record appended, the record
\* removed, the status changed.
C20_SaveFailure ==
    [][(/\ last'.op \in { "add", "remove", "update" }
        /\ last'.saved \in { "open_failed", "write_failed" }) =>
          /\ last'.outcome = "IOError"
          /\ last'.op = "add" =>
                /\ Len(books') = Len(books) + 1
                /\ \A k \in 1..Len(books) : books'[k] = books[k]
                /\ SameKey(books'[Len(books')], last'.title, last'.author, last'.year)
                /\ books'[Len(books')].id = last'.id
          /\ last'.op = "remove" =>
                \E i \in 1..Len(books) :
                    FirstWithId(books, last'.id, i) /\ Without(books', books, i)
          /\ last'.op = "update" =>
                \E i \in 1..Len(books) :
                    /\ FirstWithId(books, last'.id, i)
                    /\ books'[i].status = last'.status
                    /\ last'.status \in { Available, CheckedOut }
          /\ last'.saved = "open_failed" => file' = file
          /\ last'.saved = "write_failed" => (file'.exists /\ ~file'.valid)]_vars

\* a status change kept in memory although the file was not rewritten
C20_Witness ==
    /\ last.op = "update" /\ last.outcome = "IOError" /\ last.saved = "open_failed"
    /\ file.exists /\ file.valid /\ Len(file.data) = Len(books)
    /\ \E i \in 1..Len(books) :
          books[i].status = CheckedOut /\ file.data[i].status = Available

\* C11: every record of the sequence has a non-empty title and a non-empty
\* author, whatever text is given to add.
C11_NonEmptyText ==
    \A i \in 1..Len(books) : books[i].title /= << >> /\ books[i].author /= << >>

\* C15: the process never ends in an unhandled abort because of what the
\* user typed at a prompt.
C15_NoAbortOnInput ==
    ~(pc = "aborted" /\ last.op = "menu" /\ last.outcome = "ValueError")

\* C19: the loop is left, and the process ends normally, exactly when the
\* choice is "6"; a choice that is none of the six is reported and the menu
\* shown again with catalog and file unchanged; when the operation of a
\* choice 1-5 has returned, the menu is shown again.
C19_MenuLoop ==
    [][pc = "menu" =>
          /\ (pc' = "exited") <=> (last'.op = "menu" /\ last'.choice = "6")
          /\ (last'.op = "menu" /\ last'.choice \notin { "1", "2", "3", "4", "5", "6" }) =>
                /\ last'.outcome = "InvalidChoice"
                /\ pc' = "menu"
                /\ UNCHANGED <<books, file, alive>>
          /\ (/\ last'.op \in { "add", "remove", "search", "list", "update" }
              /\ last'.outcome /= "IOError") => pc' = "menu"]_vars

\* the program ended on choice "6" with two records saved, one of them
\* added with a year typed with a sign
C19_Witness ==
    /\ pc = "exited" /\ last.op = "menu" /\ last.outcome = "exit"
    /\ Len(books) = 2 /\ file.exists
    /\ \E i \in 1..Len(books) : books[i].year < 0

\* a file that exists and is not JSON, or holds an element lacking a key
Malformed(f) ==
    /\ f.exists
    /\ \/ ~f.valid
       \/ \E i \in 1..Len(f.data), k \in RequiredKeys : k \notin DOMAIN f.data[i]

\* C14 as first stated: a load of a malformed file, by the constructor or by
\* a call of load on a catalog in use, ends in an error and not as a load
\* that succeeded; a load of an absent file ends without error and the
\* sequence is empty.
C14_Original ==
    [][last'.op \in { "init", "load" } =>
          /\ Malformed(file) =>
                /\ last'.outcome \in { "ParseError", "KeyError", "IOError" }
                /\ last'.op = "init" => (alive' = alive /\ books' = books)
          /\ ~file.exists =>
                /\ last'.outcome = "loaded"
                /\ last'.op = "init" => alive'
                /\ books' = << >>]_vars

\* C14: a load of a malformed file, by the constructor or by a call of load
\* on a catalog in use, ends in an error that reaches the caller (IOError
\* when the read itself fails) and never as a load that succeeded, and a
\* constructor that ends so yields no catalog; a load of an absent file ends
\* without error and yields no record: the sequence of a catalog being
\* constructed is empty, the sequence of a catalog in use is left as it was.
C14_LoadErrors ==
    [][last'.op \in { "init", "load" } =>
          /\ Malformed(file) =>
                /\ last'.outcome \in { "ParseError", "KeyError", "IOError" }
                /\ last'.op = "init" => (alive' = alive /\ books' = books)
          /\ ~file.exists =>
                /\ last'.outcome = "loaded"
                /\ last'.op = "init" => (alive' /\ books' = << >>)
                /\ last'.op = "load" => books' = books]_vars

\* load called on a catalog in use over a file whose first element has no
\* status: KeyError reached the caller, and the list holds the two records
\* just built, the first with its stored id, the second with the id it drew,
\* both with the default status
C14_Witness ==
    /\ last.op = "load" /\ last.outcome = "KeyError"
    /\ file.exists /\ file.valid /\ Len(file.data) = 2
    /\ "status" \notin DOMAIN file.data[1]
    /\ RequiredKeys \subseteq DOMAIN file.data[2]
    /\ Len(books) = 2
    /\ books[1].id = file.data[1].id /\ books[1].status = Available
    /\ books[2].id /= file.data[2].id /\ books[2].status = Available

====
